---- MODULE Spec2Model ----
(***************************************************************************)
(* A model of SUDOKUSOLVER.py: the board topology, load_board,             *)
(* apply_constraints, propagate_constraints and look_forward, and the main *)
(* program that runs them in that order.                                   *)
(*                                                                         *)
(* A block of the board is BoxRows cells high and BoxCols cells wide, and  *)
(* the board has BoxRows * BoxCols rows, columns, blocks and values.  The  *)
(* program's blocks are 3 x 3 (the 9 x 9 board); the model keeps the width *)
(* and is checked with blocks 2 high (the 6 x 6 board), where the inputs   *)
(* can be enumerated.  Every number of the program that depends on the     *)
(* board (9 values, 81 cells, 27 groups, the threshold 10 of load_board)   *)
(* is written in terms of BoxRows and BoxCols.                             *)
(***************************************************************************)
EXTENDS Integers, Sequences, FiniteSets, TLC

\* ------------------------------------------------------------------ bounds
\* Height of a block: range(3) for dr, and the step of r.  The program's
\* board has BoxRows = 3.
BoxRows == 2

\* ---------------------------------------------------------------- topology
\* Width of a block: range(3) for dc, and the step of c.
BoxCols == 3
\* Side of the board: len("123456789") in the program.
N == BoxRows * BoxCols
NCells == N * N
\* The candidate values, set(range(1, 10)).
Values == 1..N
\* load_board: a token below this is a fixed value, any other leaves the cell
\* with all the values (the program's 10).
BlankMin == N + 1

\* The cell in column c and row r (both from 0), f"{col}{row}", numbered in
\* the order of the list `variables` and of the keys of varsValues: all the
\* columns of row 1, then row 2, ...
Cell(c, r) == r * N + c + 1
variables == [k \in 1..NCells |-> k]
Cells == 1..NCells
RowOf(k) == (k - 1) \div N
ColOf(k) == (k - 1) % N

Range(s) == {s[i] : i \in DOMAIN s}

rowGroups == [r \in 1..N |-> [c \in 1..N |-> Cell(c - 1, r - 1)]]
colGroups == [c \in 1..N |-> [r \in 1..N |-> Cell(c - 1, r - 1)]]
\* for r in range(0, 9, 3) for c in range(0, 9, 3):
\*     [cell(c + dc, r + dr) for dr in range(3) for dc in range(3)]
blockGroups ==
    [b \in 1..N |->
        LET r == ((b - 1) \div (N \div BoxCols)) * BoxRows
            c == ((b - 1) % (N \div BoxCols)) * BoxCols
        IN  [i \in 1..N |->
                Cell(c + ((i - 1) % BoxCols), r + ((i - 1) \div BoxCols))]]
\* The list `constraints`: the rows, then the columns, then the blocks.
constraints == rowGroups \o colGroups \o blockGroups

\* The groups that hold a cell, in the order of `constraints`: what
\* "for constraint in constraints: if var in constraint" goes through.
groupsOf == [k \in Cells |-> SelectSeq(constraints, LAMBDA g : k \in Range(g))]
GroupsOf(var) == groupsOf[var]
\* The peers of a cell: the other cells of its groups.
peersOf == [k \in Cells |-> UNION {Range(g) : g \in Range(groupsOf[k])} \ {k}]
Peers(var) == peersOf[var]

\* --------------------------------------------------------------- load_board
\* What load_board makes of a file holding the tokens `file`, one a line.
\* Every cell starts with all the values; the cells are read in key order;
\* a token below BlankMin replaces the cell's set by {token}.  A file that
\* ends early makes int('') raise ValueError; lines past the last cell are
\* never read.
load_board(file) ==
    IF Len(file) < NCells
    THEN [ok |-> FALSE, store |-> [k \in Cells |-> Values]]
    ELSE [ok |-> TRUE,
          store |-> [k \in Cells |->
                        IF file[k] < BlankMin THEN {file[k]} ELSE Values]]

\* -------------------------------------------------------- apply_constraints
\* Lines 70-73: for key in constraint, from its j-th cell on, discard
\* unique_value from every cell but cellId.
RECURSIVE DiscardFrom(_, _, _, _, _)
DiscardFrom(store, constraint, cellId, unique_value, j) ==
    IF j > Len(constraint) THEN store
    ELSE LET key == constraint[j] IN
         IF key # cellId /\ unique_value \in store[key]
         THEN DiscardFrom([store EXCEPT ![key] = @ \ {unique_value}],
                          constraint, cellId, unique_value, j + 1)
         ELSE DiscardFrom(store, constraint, cellId, unique_value, j + 1)

\* for cellId in constraint, from its i-th cell on (lines 65-73): if the cell
\* holds a single value, discard it from the other cells of the constraint.
\* The store is changed in place, so each cell sees what the cells before it
\* removed.
RECURSIVE ScanGroup(_, _, _)
ScanGroup(store, constraint, i) ==
    IF i > Len(constraint) THEN store
    ELSE LET cellId == constraint[i] IN
         IF Cardinality(store[cellId]) = 1
         THEN ScanGroup(DiscardFrom(store, constraint, cellId,
                                    CHOOSE v \in store[cellId] : TRUE, 1),
                        constraint, i + 1)
         ELSE ScanGroup(store, constraint, i + 1)

\* for constraint in cons, from its g-th group on: one pass of the while loop.
RECURSIVE ScanAll(_, _, _)
ScanAll(store, cons, g) ==
    IF g > Len(cons) THEN store
    ELSE ScanAll(ScanGroup(store, cons[g], 1), cons, g + 1)

\* Fault: apply_constraints without its while loop, one pass over the groups.
SinglePassIn(cons, store) == ScanAll(store, cons, 1)
OnePass(varsValues) == ScanAll(varsValues, constraints, 1)

\* while dirty: a pass is dirty exactly when it discarded something, that is
\* when it changed the store.  `cons` is the list of groups that is scanned.
RECURSIVE ApplyConstraintsIn(_, _)
ApplyConstraintsIn(cons, store) ==
    LET after == ScanAll(store, cons, 1)
    IN  IF after = store THEN store ELSE ApplyConstraintsIn(cons, after)

apply_constraints(varsValues) == ApplyConstraintsIn(constraints, varsValues)

\* ---------------------------------------------------- propagate_constraints
\* One removal of the cascade (line 159), and one call of
\* propagate_constraints (the first call or line 183), as the cascade's log
\* records them.
Removal(peer, value) == [kind |-> "discard", cell |-> peer, value |-> value]
Call(var, value) == [kind |-> "propagate", cell |-> var, value |-> value]

\* The cells the two loops of lines 154-156 go through for var, in order:
\* the cells of the first group that holds var, then of the second, then of
\* the third (var itself among them, a cell of var's block that shares its
\* row or column more than once).
loopCells ==
    [k \in Cells |->
        [i \in 1..(3 * N) |-> groupsOf[k][((i - 1) \div N) + 1][((i - 1) % N) + 1]]]

\* The first place from i on where line 157 holds: a cell that is not var
\* and has value among its candidates; 0 when there is none.
NextPeer(store, var, value, i) ==
    LET hits == {j \in i..(3 * N) :
                    loopCells[var][j] # var /\ value \in store[loopCells[var][j]]}
    IN  IF hits = {} THEN 0 ELSE CHOOSE j \in hits : \A h \in hits : j <= h

\* Fault: line 183 without its test, the result of the inner call is dropped
\* and the loop goes on.
RECURSIVE PropagateIgnoringInner(_, _, _, _)
PropagateIgnoringInner(st, var, value, i) ==
    LET j == NextPeer(st.store, var, value, i) IN
    IF j = 0
    THEN [ok |-> TRUE, store |-> st.store, log |-> st.log]
    ELSE
        LET peer == loopCells[var][j]
            removed == [st.store EXCEPT ![peer] = @ \ {value}]
            log1 == Append(st.log, Removal(peer, value))
        IN  IF removed[peer] = {}
            THEN [ok |-> FALSE, store |-> removed, log |-> log1]
            ELSE IF Cardinality(removed[peer]) = 1
            THEN
                LET next_value == CHOOSE v \in removed[peer] : TRUE
                    inner == PropagateIgnoringInner(
                                [store |-> removed,
                                 log |-> Append(log1, Call(peer, next_value))],
                                peer, next_value, 1)
                IN  PropagateIgnoringInner(
                        [store |-> inner.store, log |-> inner.log],
                        var, value, j + 1)
            ELSE PropagateIgnoringInner([store |-> removed, log |-> log1],
                                        var, value, j + 1)

\* Fault: lines 178-184 left out, a peer reduced to one value is not
\* propagated.
RECURSIVE PropagateNoCascade(_, _, _, _)
PropagateNoCascade(st, var, value, i) ==
    LET j == NextPeer(st.store, var, value, i) IN
    IF j = 0
    THEN [ok |-> TRUE, store |-> st.store, log |-> st.log]
    ELSE
        LET peer == loopCells[var][j]
            removed == [st.store EXCEPT ![peer] = @ \ {value}]
            log1 == Append(st.log, Removal(peer, value))
        IN  IF removed[peer] = {}
            THEN [ok |-> FALSE, store |-> removed, log |-> log1]
            ELSE PropagateNoCascade([store |-> removed, log |-> log1],
                                    var, value, j + 1)

\* propagate_constraints(varsValues, var, value), from the i-th cell of the
\* loops on.  st = [store, log]: the store as changed so far and the
\* removals and calls made so far.  The result adds ok: what the call
\* returns.
RECURSIVE PropagateFrom(_, _, _, _)
PropagateFrom(st, var, value, i) ==
    LET j == NextPeer(st.store, var, value, i) IN
    IF j = 0
    THEN [ok |-> TRUE, store |-> st.store, log |-> st.log]
    ELSE
        LET peer == loopCells[var][j]
            removed == [st.store EXCEPT ![peer] = @ \ {value}]
            log1 == Append(st.log, Removal(peer, value))
        IN  IF removed[peer] = {}
            THEN [ok |-> FALSE, store |-> removed, log |-> log1]
            ELSE IF Cardinality(removed[peer]) = 1
            THEN
                LET next_value == CHOOSE v \in removed[peer] : TRUE
                    inner == PropagateFrom(
                                [store |-> removed,
                                 log |-> Append(log1, Call(peer, next_value))],
                                peer, next_value, 1)
                IN  IF ~inner.ok THEN inner
                    ELSE PropagateFrom([store |-> inner.store, log |-> inner.log],
                                       var, value, j + 1)
            ELSE PropagateFrom([store |-> removed, log |-> log1],
                               var, value, j + 1)

propagate_constraints(varsValues, var, value) ==
    PropagateFrom([store |-> varsValues, log |-> <<Call(var, value)>>],
                  var, value, 1)

\* ------------------------------------------------------------- look_forward
\* unassigned_vars: the cells with more than one candidate.
unassigned_vars(varsValues) == {k \in Cells : Cardinality(varsValues[k]) > 1}

\* min(unassigned_vars, key=len): the first cell, in key order, among those
\* with the fewest candidates.
chosen_var(varsValues) ==
    LET un == unassigned_vars(varsValues)
        fewest == {k \in un : \A j \in un :
                        Cardinality(varsValues[k]) <= Cardinality(varsValues[j])}
    IN  CHOOSE k \in fewest : \A j \in fewest : k <= j

\* ------------------------------------------------------------------ inputs
\* The token that leaves a cell blank in the input files of the model: the
\* least token load_board does not take for a fixed value.
Blank == BlankMin
\* The tokens of the input files: the values, Blank, and 0 and -1, which
\* load_board also takes for fixed values.
Tokens == (-1)..Blank

\* A solved board.
Solved ==
    [k \in Cells |->
        ((BoxCols * (RowOf(k) % BoxRows) + (RowOf(k) \div BoxRows) + ColOf(k)) % N) + 1]
\* The base puzzle is set in the corner of the board that is two blocks
\* wide and as high: it gives the cells of the solved board at these columns
\* and rows and, on a larger board, every cell outside the corner.
Corner == {k \in Cells : RowOf(k) < 2 * BoxCols /\ ColOf(k) < 2 * BoxCols}
BaseGivens ==
    {<<4, 0>>, <<5, 0>>, <<3, 1>>, <<0, 2>>, <<1, 2>>,
     <<2, 3>>, <<5, 3>>, <<2, 4>>, <<1, 5>>, <<3, 5>>}
BaseFile ==
    [k \in Cells |->
        IF <<ColOf(k), RowOf(k)>> \in BaseGivens \/ k \notin Corner
        THEN Solved[k] ELSE Blank]

\* The sets of cells that are edited: none, or any one cell of the corner.
EditSets == {{}} \cup {{k} : k \in Corner}
\* The sets an edited cell of a store holds: any set of at most two values.
SmallSets == {set \in SUBSET Values : Cardinality(set) <= 2}

\* The files of NCells tokens that differ from the base puzzle in the cells
\* of `at`, each holding any token; with, for the base puzzle itself, a file
\* one line short and the files with a line too many.
ShortFile == [k \in 1..(NCells - 1) |-> BaseFile[k]]
LongFiles == {[k \in 1..(NCells + 1) |-> IF k > NCells THEN t ELSE BaseFile[k]] :
                    t \in Tokens}
FilesAt(at) ==
    {[k \in Cells |-> IF k \in at THEN tok[k] ELSE BaseFile[k]] : tok \in [at -> Tokens]}
        \cup (IF at = {} THEN {ShortFile} \cup LongFiles ELSE {})

\* The stores apply_constraints is tried on by itself: the base puzzle as
\* loaded, with the cells of `at` holding any sets of values.
BaseStore == load_board(BaseFile).store
StoresAt(at) ==
    {[k \in Cells |-> IF k \in at THEN set[k] ELSE BaseStore[k]] :
        set \in [at -> SmallSets]}

\* Other orders in which the groups, and the cells of a group, can be
\* scanned.
Reverse(seq) == [i \in 1..Len(seq) |-> seq[Len(seq) + 1 - i]]
ReverseCells(cons) == [g \in 1..Len(cons) |-> Reverse(cons[g])]
ScanOrders ==
    <<Reverse(constraints),
      ReverseCells(constraints),
      Reverse(ReverseCells(constraints)),
      blockGroups \o colGroups \o rowGroups>>

\* ------------------------------------------------------------ the program
VARIABLES
    pc,     \* where the main program is: "load", "apply", then inside
            \* look_forward "call" (a call starts), "loop" (line 118),
            \* "return" (a call has returned to its caller); "done", "error"
    input,  \* the tokens of the file load_board read
    heap,   \* the stores (dict objects) that exist, by identity
    stack,  \* the look_forward calls in progress, the innermost last
    ret,    \* what the last finished look_forward call returned: the
            \* identity of a store, or None
    last,   \* the last trial of line 118-128: what was copied, what came out
    popped  \* the look_forward call that returned last

vars == <<pc, input, heap, stack, ret, last, popped>>

None == 0
NoTrial == [parent |-> None]
NoCall == [sid |-> None]

\* A look_forward call: sid, the store it was passed; chosen and rest, the
\* cell of line 111 and the values of line 118 not tried yet; entry, the
\* content of the store when the call started.
Frame(sid, store) ==
    [sid |-> sid, chosen |-> None, rest |-> {}, entry |-> store]
Top == stack[Len(stack)]
Pop(s) == SubSeq(s, 1, Len(s) - 1)

\* Fault: the loop of line 118 left after its first value.
FirstValueOnly(varsValues, chosen) ==
    {CHOOSE value \in varsValues[chosen] : TRUE}

\* Line 118: the values the loop goes through, a copy of the chosen cell's
\* set.
TrialValues(varsValues, chosen) == varsValues[chosen]

\* Fault: line 125 left out.
AssignNothing(new_varsValues, chosen, value) == new_varsValues

\* Line 125: new_varsValues[chosen] = {value}.
Assign(new_varsValues, chosen, value) ==
    [new_varsValues EXCEPT ![chosen] = {value}]

\* Fault: line 123 as new_varsValues = varsValues, the same store under
\* another name.
AliasStore(h, sid) == [heap |-> h, sid |-> sid]

\* Line 123: {k: v.copy() for k, v in varsValues.items()}, a new store with
\* the content of store sid.
CopyStore(h, sid) == [heap |-> Append(h, h[sid]), sid |-> Len(h) + 1]

\* The stores still referenced: main's varsValues (store 1), the stores of
\* the calls in progress and the returned one.  A copy nothing refers to any
\* more is gone.
Release(h, st, r) ==
    LET live == {1, r} \cup {st[i].sid : i \in DOMAIN st}
    IN  SubSeq(h, 1, CHOOSE m \in live : \A j \in live : j <= m)

Init ==
    /\ pc = "load"
    /\ input = <<>>
    /\ heap = <<>>
    /\ stack = <<>>
    /\ ret = None
    /\ last = NoTrial
    /\ popped = NoCall

\* Line 228: varsValues = load_board(verbose).
LoadBoard ==
    /\ pc = "load"
    /\ \E at \in EditSets : \E file \in FilesAt(at) :
        LET r == load_board(file) IN
        /\ input' = file
        /\ heap' = IF r.ok THEN <<r.store>> ELSE <<>>
        /\ pc' = IF r.ok THEN "apply" ELSE "error"
    /\ UNCHANGED <<stack, ret, last, popped>>

\* Lines 230 and 232: apply_constraints changes the store in place and
\* returns it; look_forward is called on it.
ApplyConstraints ==
    /\ pc = "apply"
    /\ heap' = <<apply_constraints(heap[1])>>
    /\ stack' = <<Frame(1, heap'[1])>>
    /\ pc' = "call"
    /\ UNCHANGED <<input, ret, last, popped>>

\* Lines 106-111: a call returns its store when no cell has more than one
\* candidate, and otherwise chooses the cell to branch on.
LookForwardEnter ==
    /\ pc = "call"
    /\ LET varsValues == heap[Top.sid] IN
        IF unassigned_vars(varsValues) = {}
        THEN /\ ret' = Top.sid
             /\ stack' = Pop(stack)
             /\ popped' = Top
             /\ pc' = "return"
        ELSE /\ stack' = [stack EXCEPT ![Len(stack)] =
                            [@ EXCEPT !.chosen = chosen_var(varsValues),
                                      !.rest = TrialValues(varsValues,
                                                    chosen_var(varsValues))]]
             /\ pc' = "loop"
             /\ UNCHANGED <<ret, popped>>
    /\ UNCHANGED <<input, heap, last>>

\* Lines 118-130, one value of the loop: copy the store, assign the value,
\* propagate; on True call look_forward on the copy, on False go on with the
\* next value.  A set is iterated in no specified order: any value not yet
\* tried may come next.
TryValue ==
    /\ pc = "loop"
    /\ \E value \in Top.rest :
        LET chosen == Top.chosen
            cp == CopyStore(heap, Top.sid)
            new_varsValues == Assign(cp.heap[cp.sid], chosen, value)
            r == propagate_constraints(new_varsValues, chosen, value)
            heap1 == [cp.heap EXCEPT ![cp.sid] = r.store]
            stack1 == [stack EXCEPT ![Len(stack)].rest = @ \ {value}]
        IN  /\ last' = [parent |-> Top.sid, chosen |-> chosen, value |-> value,
                        copy |-> cp.heap[cp.sid], ok |-> r.ok, log |-> r.log,
                        store |-> r.store]
            /\ IF r.ok
               THEN /\ heap' = heap1
                    /\ stack' = Append(stack1, Frame(cp.sid, heap1[cp.sid]))
                    /\ pc' = "call"
               ELSE /\ heap' = Release(heap1, stack1, None)
                    /\ stack' = stack1
                    /\ pc' = "loop"
    /\ UNCHANGED <<input, ret, popped>>

\* Line 137: every value was tried.
Exhausted ==
    /\ pc = "loop"
    /\ Top.rest = {}
    /\ ret' = None
    /\ stack' = Pop(stack)
    /\ popped' = Top
    /\ pc' = "return"
    /\ UNCHANGED <<input, heap, last>>

\* Lines 131-133: the inner call returned a store: return it.
ReturnResult ==
    /\ pc = "return"
    /\ stack # <<>>
    /\ ret # None
    /\ stack' = Pop(stack)
    /\ popped' = Top
    /\ UNCHANGED <<pc, input, heap, ret, last>>

\* Line 134: the inner call returned None: on to the next value.
NextValue ==
    /\ pc = "return"
    /\ stack # <<>>
    /\ ret = None
    /\ heap' = Release(heap, stack, None)
    /\ pc' = "loop"
    /\ UNCHANGED <<input, stack, ret, last, popped>>

\* Line 232: solution = look_forward(...) has returned to the main program.
Finish ==
    /\ pc = "return"
    /\ stack = <<>>
    /\ pc' = "done"
    /\ UNCHANGED <<input, heap, stack, ret, last, popped>>

Next ==
    \/ LoadBoard
    \/ ApplyConstraints
    \/ LookForwardEnter
    \/ TryValue
    \/ Exhausted
    \/ ReturnResult
    \/ NextValue
    \/ Finish

Spec == Init /\ [][Next]_vars

\* --------------------------------------------- apply_constraints by itself
\* apply_constraints on any store of StoresAt: heap holds the store as given,
\* then the store after one run, then the store after a second run; or the
\* given store is scanned in another order, and `last` holds what came out.
FixInit ==
    /\ pc = "fix"
    /\ input = <<>>
    /\ \E at \in EditSets : heap \in {<<s>> : s \in StoresAt(at)}
    /\ stack = <<>>
    /\ ret = None
    /\ last = NoTrial
    /\ popped = NoCall

FixOnce ==
    /\ pc = "fix"
    /\ heap' = <<heap[1], apply_constraints(heap[1])>>
    /\ pc' = "fixed"
    /\ UNCHANGED <<input, stack, ret, last, popped>>

FixTwice ==
    /\ pc = "fixed"
    /\ heap' = Append(heap, apply_constraints(heap[2]))
    /\ pc' = "refixed"
    /\ UNCHANGED <<input, stack, ret, last, popped>>

FixReordered ==
    /\ pc = "fixed"
    /\ \E o \in DOMAIN ScanOrders :
        last' = [parent |-> None, order |-> o,
                 store |-> ApplyConstraintsIn(ScanOrders[o], heap[1])]
    /\ pc' = "reordered"
    /\ UNCHANGED <<input, heap, stack, ret, popped>>

FixNext == FixOnce \/ FixTwice \/ FixReordered

FixSpec == FixInit /\ [][FixNext]_vars

\* ================================================================ claims

\* The number of cells with more than one candidate.
Multi(store) == Cardinality(unassigned_vars(store))

\* A store is solved: every cell holds one value, and every row, column and
\* block holds each of the values exactly once.
IsSolved(store) ==
    /\ \A k \in Cells : Cardinality(store[k]) = 1 /\ store[k] \subseteq Values
    /\ \A g \in DOMAIN constraints :
            UNION {store[constraints[g][i]] : i \in 1..N} = Values

\* No value that is the single candidate of a cell is a candidate of a peer.
SinglesPropagated(store) ==
    \A k \in Cells :
        Cardinality(store[k]) = 1 =>
            \A p \in Peers(k) : store[k] \cap store[p] = {}

\* The cells a file fixes, and what it fixes them to.
IsGiven(file, k) == file[k] < BlankMin

\* The valid completions of the grid a file gives, found by filling the
\* cells in order, `grid` holding the cells filled so far: the next cell
\* takes its given value, or any value if it is blank, provided no peer
\* filled so far holds it and no peer still to fill is given it.
RECURSIVE CompletionsFrom(_, _)
CompletionsFrom(file, grid) ==
    IF Len(grid) = NCells THEN {grid}
    ELSE LET k == Len(grid) + 1
             free == {v \in Values : \A p \in Peers(k) :
                        IF p < k THEN grid[p] # v
                        ELSE ~(IsGiven(file, p) /\ file[p] = v)}
             fits == IF IsGiven(file, k) THEN free \cap {file[k]} ELSE free
         IN  UNION {CompletionsFrom(file, Append(grid, v)) : v \in fits}
Completions(file) == CompletionsFrom(file, <<>>)
AsStore(grid) == [k \in Cells |-> {grid[k]}]

\* Two cells of one group are given the same value.
DuplicateGivens(file) ==
    \E g \in DOMAIN constraints : \E i, j \in 1..N :
        /\ i < j
        /\ file[constraints[g][i]] \in Values
        /\ file[constraints[g][i]] = file[constraints[g][j]]

\* An initial grid: one token a cell, each a value or the blank marker.
IsGrid(file) ==
    /\ Len(file) = NCells
    /\ \A k \in Cells : file[k] \in Values \cup {Blank}

\* C1 (as claimed; the program violates it): for every initial grid, a store
\* that solve returns is fully assigned and each row, column and block of it
\* holds each value exactly once.
C1_ReturnedStoreIsSolved ==
    (pc = "done" /\ ret # None /\ IsGrid(input)) => IsSolved(heap[ret])

\* C2 (as claimed; the program violates it): for every initial grid in which
\* two cells of a group are given the same value, solve returns None.
C2_DuplicateGivensReturnNone ==
    (pc = "done" /\ IsGrid(input) /\ DuplicateGivens(input)) => ret = None

\* C3: when the grid has a valid completion, solve returns a store, and that
\* store is a valid completion of the grid: the completion, when there is
\* only one.
C3_CompletableIsSolved ==
    pc = "done" =>
        LET completions == Completions(input)
        IN  completions # {} =>
                /\ ret # None
                /\ heap[ret] \in {AsStore(grid) : grid \in completions}

\* A grid with one completion, found after the first call had to give up a
\* value: it tried at least two values of its cell, and the solution is a
\* copy of a copy.
C3_Witness ==
    /\ pc = "done"
    /\ ret # None /\ ret >= 3
    /\ popped.chosen # None
    /\ Cardinality(popped.rest) + 2 <= Cardinality(popped.entry[popped.chosen])
    /\ Cardinality(Completions(input)) = 1

\* C4: a second run of apply_constraints removes nothing.
C4_SecondRunRemovesNothing ==
    pc = "refixed" => heap[3] = heap[2]

\* The first run removed something and emptied a candidate set.
C4_Witness ==
    /\ pc = "refixed"
    /\ \E k \in Cells : heap[1][k] # {} /\ heap[2][k] = {}
    /\ \E k \in Cells : heap[2][k] # {} /\ heap[2][k] # heap[1][k]

\* A file that is malformed whatever the marker of a blank cell is taken to
\* be: it does not hold one token a cell, or it holds a negative token.
Malformed(file) ==
    \/ Len(file) # NCells
    \/ \E k \in DOMAIN file : file[k] < 0

\* C5 (as claimed; the program violates it): load_board ends in an error,
\* and leaves no store, on a file whose token count is not that of the board
\* or that holds a token outside 0 .. N.
C5_MalformedIsRejected ==
    (pc # "load" /\ Malformed(input)) => (pc = "error" /\ heap = <<>>)

\* ------------------------------------------------- the last cascade's log
\* The store the last trial's cascade started on: the copy after line 125.
Started == Assign(last.copy, last.chosen, last.value)
\* The store after the first i entries of the last cascade's log.
After(i) ==
    [k \in Cells |->
        Started[k] \ {last.log[j].value : j \in {j \in 1..i :
            last.log[j].kind = "discard" /\ last.log[j].cell = k}}]
\* The i-th entry of the log is a removal that left a cell empty.
Empties(i) ==
    /\ last.log[i].kind = "discard"
    /\ After(i)[last.log[i].cell] = {}
\* The cells the last cascade reduced to one value.
Reduced ==
    {k \in Cells : Cardinality(Started[k]) > 1 /\ Cardinality(last.store[k]) = 1}

\* C6: propagate_constraints returns False exactly when a removal of the
\* cascade leaves a candidate set empty, and that removal is its last; when
\* it returns True, every set that was not empty is still not empty, and the
\* value of every cell the cascade reduced to one value is in no peer of it.
C6_FalseExactlyOnEmptiedSet ==
    last.parent # None =>
        /\ last.store = After(Len(last.log))
        /\ last.ok = ~(\E i \in DOMAIN last.log : Empties(i))
        /\ \A i \in DOMAIN last.log : Empties(i) => i = Len(last.log)
        /\ last.ok =>
            /\ \A k \in Cells : Started[k] # {} => last.store[k] # {}
            /\ \A k \in Reduced : \A p \in Peers(k) :
                    last.store[k] \cap last.store[p] = {}

\* A cascade that went through a cell it had reduced to one value and then
\* emptied a cell.
C6_Witness ==
    /\ last.parent # None
    /\ ~last.ok
    /\ \E i \in 2..Len(last.log) : last.log[i].kind = "propagate"
    /\ Empties(Len(last.log))

\* C7: look_forward does not change the store it is passed: the store of
\* every call in progress, and of the call that has just returned, holds what
\* it held when the call started; no two calls in progress have the same
\* store; and a trial starts from a copy that holds what the caller's store
\* held when the caller started.
C7_CallerStoreUnchanged ==
    /\ \A i \in DOMAIN stack : heap[stack[i].sid] = stack[i].entry
    /\ \A i, j \in DOMAIN stack : i # j => stack[i].sid # stack[j].sid
    /\ pc \in {"return", "done"} =>
            heap[popped.sid] = popped.entry
    /\ \A i \in DOMAIN stack :
            (last.parent # None /\ stack[i].sid = last.parent) =>
                /\ last.copy = stack[i].entry
                /\ \A k \in Cells \ {last.chosen} : Started[k] = stack[i].entry[k]

\* A trial's cascade removed values and failed, and the caller, its store as
\* it was, has another value to try.
C7_Witness ==
    /\ pc = "loop"
    /\ last.parent = Top.sid
    /\ ~last.ok
    /\ \E k \in Cells \ {last.chosen} : last.store[k] # last.copy[k]
    /\ Top.rest # {}
    /\ heap[Top.sid] = Top.entry

\* ------------------------------------------------------ order of the scan
\* The first run of apply_constraints emptied no candidate set.
NothingEmptied == \A k \in Cells : heap[1][k] # {} => heap[2][k] # {}

\* C8 (as claimed; the program violates it): whatever the order in which the
\* groups and the cells of a group are scanned, elimination stops at the
\* same store.
C8_AnyOrderSameStore ==
    pc = "reordered" => last.store = heap[2]

\* C8 (amended): when elimination in the program's order empties no
\* candidate set, it stops at the same store in every order of the scan.
C8_AnyOrderSameStoreUnlessEmptied ==
    (pc = "reordered" /\ NothingEmptied) => last.store = heap[2]

\* Two orders whose first passes leave different stores, and that stop at the
\* same store, no set emptied.
C8_Witness ==
    /\ pc = "reordered"
    /\ NothingEmptied
    /\ ScanAll(heap[1], ScanOrders[last.order], 1) # ScanAll(heap[1], constraints, 1)
    /\ last.store = heap[2]
    /\ heap[2] # heap[1]

\* ------------------------------------------------------------ termination
\* The calls of propagate_constraints in the last cascade's log.
Propagated == {i \in DOMAIN last.log : last.log[i].kind = "propagate"}

\* What bounds the search: each call in progress has fewer cells with more
\* than one candidate than its caller, there are at most NCells calls in
\* progress, and no cell is propagated twice in one cascade.
C9_Measure ==
    /\ \A i \in DOMAIN stack :
            i > 1 => Multi(stack[i].entry) < Multi(stack[i - 1].entry)
    /\ Len(stack) <= NCells
    /\ pc \in {"call", "loop"} => stack # <<>>
    /\ last.parent # None =>
            \A i, j \in Propagated : last.log[i].cell = last.log[j].cell => i = j

\* C9: every look_forward call terminates: each call gets a store with fewer
\* cells of more than one candidate than its caller's, so at most NCells
\* calls are nested; a cascade propagates no cell twice; and the program
\* takes finitely many steps.  It is one sequential computation that is
\* never without a next step short of its end, so it comes to its end.
C9_Terminates ==
    []C9_Measure /\ <>[][FALSE]_vars

\* The search ended, after a trial made by a nested call whose cascade
\* propagated three cells.
C9_Witness ==
    /\ pc = "done"
    /\ last.parent # None /\ last.parent >= 2
    /\ Cardinality(Propagated) >= 3

\* C10: in every store look_forward is called on, and in every store it
\* returns, the value of a cell with one candidate is a candidate of no peer
\* of the cell.
C10_SinglesPropagated ==
    /\ pc = "call" => SinglesPropagated(heap[Top.sid])
    /\ (pc \in {"return", "done"} /\ ret # None) => SinglesPropagated(heap[ret])

\* look_forward is called on a copy whose cascade reduced another cell to
\* one value.
C10_Witness ==
    /\ pc = "call"
    /\ Len(stack) >= 2
    /\ last.ok
    /\ Top.sid # last.parent
    /\ Reduced \ {last.chosen} # {}

====
